---- MODULE Spec2Model ----
(***************************************************************************)
(* Model of the accounting engine (src/accounting-engine/src/lib.rs):      *)
(* calculate_booking_financials, generate_journal_entries_for_booking and  *)
(* calculate_batch_bookings, with the two number types the code computes   *)
(* in: rust_decimal::Decimal (a bounded integer mantissa with a bounded    *)
(* decimal scale; every operation rounds its exact result to the finest    *)
(* scale whose mantissa fits, and panics on overflow and on a zero         *)
(* divisor) and f64 (a binary mantissa of bounded width; every conversion  *)
(* and every addition rounds to nearest, ties to even).                    *)
(*                                                                         *)
(* Every number is an integer count of units of 10^-MaxScale.  The widths  *)
(* are scaled down from 96 bits / 28 digits / 53 bits so that the values   *)
(* fit the model checker's integers; the structure of the arithmetic is    *)
(* the library's.                                                          *)
(***************************************************************************)
EXTENDS Integers, Sequences, FiniteSets

VARIABLES input, fin, jrn, batch_input, batch

vars == <<input, fin, jrn, batch_input, batch>>

-----------------------------------------------------------------------------
(* Widths of the number types.                                             *)

\* Largest decimal scale of a Decimal (28 in rust_decimal).
MaxScale == 2

\* Largest mantissa of a Decimal (2^96 - 1 in rust_decimal).
MaxMant == 799

\* Significant bits of an f64 mantissa (53 in IEEE 754 binary64).
MantBits == 5

\* Longest batch.
MaxBatch == 3

RECURSIVE Pow(_, _)
Pow(b, k) == IF k = 0 THEN 1 ELSE b * Pow(b, k - 1)

\* Units per 1.0.
One == Pow(10, MaxScale)

\* The finest f64 step of the model: 2^-2.
Quantum == One \div 4

Abs(x) == IF x < 0 THEN -x ELSE x

Sign(x) == IF x < 0 THEN -1 ELSE 1

\* n / d rounded to the nearest integer, ties to even (n >= 0, d > 0).
RoundHalfEven(n, d) ==
    LET q == n \div d
        r == n % d
    IN  IF 2 * r > d \/ (2 * r = d /\ q % 2 = 1) THEN q + 1 ELSE q

SetMax(S) == CHOOSE x \in S : \A y \in S : y <= x

SetMin(S) == CHOOSE x \in S : \A y \in S : x <= y

-----------------------------------------------------------------------------
(* rust_decimal::Decimal.  A value is [ok, v]: v the value in units; ok is *)
(* FALSE once an operation has panicked (the panic unwinds the whole call, *)
(* so it is carried through every later operation).                        *)

Dec(v) == [ok |-> TRUE, v |-> v]

Panicked == [ok |-> FALSE, v |-> 0]

\* The mantissa of a / d units at scale s (a >= 0, d > 0).
MantAt(a, d, s) == RoundHalfEven(a, d * Pow(10, MaxScale - s))

\* The scales at which the mantissa of a / d fits.
FitScales(a, d) == {s \in 0..MaxScale : MantAt(a, d, s) <= MaxMant}

RoundedAt(sg, a, d, fits) ==
    IF fits = {} THEN Panicked
    ELSE Dec(sg * MantAt(a, d, SetMax(fits)) * Pow(10, MaxScale - SetMax(fits)))

\* The Decimal nearest to num / den units: the finest scale whose mantissa
\* fits, ties to even; no scale fits -> the operation overflows and panics.
Rounded(num, den) ==
    RoundedAt(Sign(num) * Sign(den), Abs(num), Abs(den), FitScales(Abs(num), Abs(den)))

DecAdd(x, y) == IF x.ok /\ y.ok THEN Rounded(x.v + y.v, 1) ELSE Panicked

DecSub(x, y) == IF x.ok /\ y.ok THEN Rounded(x.v - y.v, 1) ELSE Panicked

DecMul(x, y) == IF x.ok /\ y.ok THEN Rounded(x.v * y.v, One) ELSE Panicked

\* Division panics on a zero divisor, whatever the dividend.
DecDiv(x, y) ==
    IF x.ok /\ y.ok /\ y.v # 0 THEN Rounded(x.v * One, y.v) ELSE Panicked

DecZero == Dec(0)

DecOne == Dec(One)

DecHundred == Dec(100 * One)

-----------------------------------------------------------------------------
(* f64.                                                                    *)

\* The mantissa of a units at binary exponent e (a >= 0).
BinMantAt(a, e) == RoundHalfEven(a, Quantum * Pow(2, e))

\* The least binary exponent at which the mantissa of a fits.
BinExp(a) == SetMin({e \in 0..12 : BinMantAt(a, e) <= Pow(2, MantBits) - 1})

RoundF64At(sg, a, e) == sg * BinMantAt(a, e) * Quantum * Pow(2, e)

\* The f64 nearest to x units, ties to even.
RoundF64(x) == RoundF64At(Sign(x), Abs(x), BinExp(Abs(x)))

IsF64(x) == RoundF64(x) = x

F64Add(x, y) == RoundF64(x + y)

F64Sub(x, y) == RoundF64(x - y)

\* iter().sum() over f64: a left fold of rounded additions.
RECURSIVE f64_sum(_)
f64_sum(s) ==
    IF s = <<>> THEN 0
    ELSE F64Add(f64_sum(SubSeq(s, 1, Len(s) - 1)), s[Len(s)])

unwrap_or_zero(r) == IF r.ok THEN r ELSE DecZero

\* Decimal::from_f64(x).unwrap_or(Decimal::ZERO): out of range -> zero.
from_f64(x) == unwrap_or_zero(Rounded(x, 1))

\* d.to_f64().unwrap_or(0.0)
to_f64(d) == RoundF64(d.v)

-----------------------------------------------------------------------------
(* JSON at the boundary.  A request body either decodes to the expected    *)
(* struct or is malformed; a response is the JSON of a result, the JSON of *)
(* an error, or nothing at all when the call panicked.                     *)

Malformed == [tag |-> "malformed"]

\* A serializer that writes a zero rate as null, which does not decode.
booking_to_string_null_rate(b) ==
    IF b.commission_rate = 0 THEN Malformed
    ELSE [tag |-> "BookingInput",
          cost_amount |-> b.cost_amount, sale_amount |-> b.sale_amount,
          vat_rate |-> b.vat_rate, commission_rate |-> b.commission_rate,
          currency |-> b.currency]

\* serde_json::to_string(booking): finite f64 fields print and re-read exactly.
booking_to_string(b) ==
    [tag |-> "BookingInput",
     cost_amount |-> b.cost_amount, sale_amount |-> b.sale_amount,
     vat_rate |-> b.vat_rate, commission_rate |-> b.commission_rate,
     currency |-> b.currency]

\* serde_json::from_str::<BookingInput>
booking_from_str(j) ==
    IF j.tag = "BookingInput"
    THEN [ok |-> TRUE,
          val |-> [cost_amount |-> j.cost_amount, sale_amount |-> j.sale_amount,
                   vat_rate |-> j.vat_rate, commission_rate |-> j.commission_rate,
                   currency |-> j.currency]]
    ELSE [ok |-> FALSE]

ErrorResponse == [status |-> "error", error |-> "Invalid input"]

PanicOutcome == [status |-> "panic"]

\* No operation of the call panicked.
AllOk(d) == \A f \in DOMAIN d : d[f].ok

-----------------------------------------------------------------------------
(* calculate_booking_financials.  Each operator below is one run of lines  *)
(* of the function; the values computed so far are its parameters.         *)

\* vat_amount = sale - net_before_vat
vat_split(vat_divisor, sale, net_before_vat) ==
    [vat_divisor |-> vat_divisor, net_before_vat |-> net_before_vat,
     vat_amount |-> DecSub(sale, net_before_vat)]

\* net_before_vat = sale / vat_divisor
vat_of_divisor(sale, vat_divisor) ==
    vat_split(vat_divisor, sale, DecDiv(sale, vat_divisor))

\* VAT included in the sale price: vat_divisor = 1 + vat_rate / 100.
vat_breakdown(sale, vat_rate) ==
    vat_of_divisor(sale, DecAdd(DecOne, DecDiv(vat_rate, DecHundred)))

\* The margin: zero unless sale > 0.
profit_margin(net_profit, sale) ==
    IF sale.v > 0
    THEN DecMul(DecDiv(net_profit, sale), DecHundred)
    ELSE DecZero

commission_of(gross_profit, commission_rate) ==
    DecMul(gross_profit, DecDiv(commission_rate, DecHundred))

\* The local Decimal values of the call, once all are computed.
financials_locals(cost, sale, gross_profit, vat, commission_amount, net_profit) ==
    [cost |-> cost, sale |-> sale,
     gross_profit |-> gross_profit,
     vat_divisor |-> vat.vat_divisor,
     net_before_vat |-> vat.net_before_vat,
     vat_amount |-> vat.vat_amount,
     total_with_vat |-> sale,
     commission_amount |-> commission_amount,
     net_profit |-> net_profit,
     profit_margin |-> profit_margin(net_profit, sale)]

financials_net(cost, sale, gross_profit, vat, commission_amount) ==
    financials_locals(cost, sale, gross_profit, vat, commission_amount,
                      DecSub(gross_profit, commission_amount))

financials_gross(cost, sale, vat_rate, commission_rate, gross_profit) ==
    financials_net(cost, sale, gross_profit, vat_breakdown(sale, vat_rate),
                   commission_of(gross_profit, commission_rate))

financials_decimals(cost, sale, vat_rate, commission_rate) ==
    financials_gross(cost, sale, vat_rate, commission_rate, DecSub(sale, cost))

\* "Convert to Decimal for precision", then the computation.
booking_decimals(b) ==
    financials_decimals(from_f64(b.cost_amount), from_f64(b.sale_amount),
                        from_f64(b.vat_rate), from_f64(b.commission_rate))

\* The outcome of the call, given its locals: a panic if any operation
\* panicked, else the JSON of the BookingFinancials (body).
financials_outcome(d) ==
    IF ~AllOk(d) THEN PanicOutcome
    ELSE [status |-> "ok",
          locals |-> d,
          body |->
            [gross_profit |-> to_f64(d.gross_profit),
             vat_amount |-> to_f64(d.vat_amount),
             net_before_vat |-> to_f64(d.net_before_vat),
             total_with_vat |-> to_f64(d.total_with_vat),
             commission_amount |-> to_f64(d.commission_amount),
             net_profit |-> to_f64(d.net_profit),
             profit_margin_percentage |-> to_f64(d.profit_margin)]]

financials_of_parsed(parsed) ==
    IF ~parsed.ok THEN ErrorResponse
    ELSE financials_outcome(booking_decimals(parsed.val))

calculate_booking_financials(input_json) ==
    financials_of_parsed(booking_from_str(input_json))

-----------------------------------------------------------------------------
(* generate_journal_entries_for_booking                                    *)

JournalEntry(code, debit, credit) ==
    [account_code |-> code, debit |-> debit, credit |-> credit]

\* The entries with VAT Payable pushed before Revenue.
journal_entries_vat_first(cost, sale, net_before_vat, vat_amount) ==
    << JournalEntry("1201", to_f64(sale), 0),
       JournalEntry("2301", 0, to_f64(vat_amount)),
       JournalEntry("4101", 0, to_f64(net_before_vat)),
       JournalEntry("5101", to_f64(cost), 0),
       JournalEntry("2101", 0, to_f64(cost)) >>

\* The entries with the cost written on both sides of Cost of Sales.
journal_entries_two_sided(cost, sale, net_before_vat, vat_amount) ==
    << JournalEntry("1201", to_f64(sale), 0),
       JournalEntry("4101", 0, to_f64(net_before_vat)),
       JournalEntry("2301", 0, to_f64(vat_amount)),
       JournalEntry("5101", to_f64(cost), to_f64(cost)),
       JournalEntry("2101", 0, to_f64(cost)) >>

\* The five entries, in the order they are pushed.
journal_entries(cost, sale, net_before_vat, vat_amount) ==
    << JournalEntry("1201", to_f64(sale), 0),
       JournalEntry("4101", 0, to_f64(net_before_vat)),
       JournalEntry("2301", 0, to_f64(vat_amount)),
       JournalEntry("5101", to_f64(cost), 0),
       JournalEntry("2101", 0, to_f64(cost)) >>

Debits(entries) == [i \in 1..Len(entries) |-> entries[i].debit]

Credits(entries) == [i \in 1..Len(entries) |-> entries[i].credit]

\* |total_debit - total_credit| < 0.01
is_balanced(total_debit, total_credit) ==
    100 * Abs(F64Sub(total_debit, total_credit)) < One

journal_body(entries, total_debit, total_credit) ==
    [entries |-> entries,
     total_debit |-> total_debit,
     total_credit |-> total_credit,
     is_balanced |-> is_balanced(total_debit, total_credit)]

\* "Calculate totals" and the result.
journal_totals(entries) ==
    journal_body(entries, f64_sum(Debits(entries)), f64_sum(Credits(entries)))

journal_net(sale, vat_divisor, net_before_vat) ==
    [net_before_vat |-> net_before_vat, vat_amount |-> DecSub(sale, net_before_vat)]

\* The net taken as sale * vat_divisor.
journal_divide_multiplies(sale, vat_divisor) ==
    journal_net(sale, vat_divisor, DecMul(sale, vat_divisor))

\* net_before_vat = sale / vat_divisor
journal_divide(sale, vat_divisor) ==
    journal_net(sale, vat_divisor, DecDiv(sale, vat_divisor))

\* "Calculate VAT" of the journal generator.
journal_vat(sale, vat_rate) ==
    journal_divide(sale, DecAdd(DecOne, DecDiv(vat_rate, DecHundred)))

journal_locals(cost, sale, vat) ==
    [cost |-> cost, sale |-> sale,
     net_before_vat |-> vat.net_before_vat, vat_amount |-> vat.vat_amount]

journal_outcome(d) ==
    IF ~AllOk(d) THEN PanicOutcome
    ELSE [status |-> "ok",
          locals |-> d,
          body |-> journal_totals(journal_entries(d.cost, d.sale, d.net_before_vat,
                                                  d.vat_amount))]

journal_decimals(cost, sale, vat_rate) ==
    journal_locals(cost, sale, journal_vat(sale, vat_rate))

journal_of_parsed(parsed) ==
    IF ~parsed.ok THEN ErrorResponse
    ELSE journal_outcome(journal_decimals(from_f64(parsed.val.cost_amount),
                                          from_f64(parsed.val.sale_amount),
                                          from_f64(parsed.val.vat_rate)))

generate_journal_entries_for_booking(input_json) ==
    journal_of_parsed(booking_from_str(input_json))

-----------------------------------------------------------------------------
(* calculate_batch_bookings                                                *)

\* serde_json::from_str::<BatchBookingInput>
batch_from_str(j) ==
    IF j.tag = "BatchBookingInput"
    THEN [ok |-> TRUE, val |-> [bookings |-> j.bookings]]
    ELSE [ok |-> FALSE]

\* serde_json::from_str::<BookingFinancials>(&result_json): the JSON of an
\* error has none of the struct's fields.
financials_from_str(outcome) ==
    IF outcome.status = "ok"
    THEN [ok |-> TRUE, val |-> outcome.body]
    ELSE [ok |-> FALSE]

\* The accumulators before the loop.
BatchStart ==
    [results |-> <<>>,
     total_cost |-> DecZero, total_revenue |-> DecZero, total_profit |-> DecZero,
     total_vat |-> DecZero, total_commission |-> DecZero]

\* The body of the loop for one booking whose result_json parsed.
batch_accumulate(acc, booking, result) ==
    [results |-> Append(acc.results, result),
     total_cost |-> DecAdd(acc.total_cost, from_f64(booking.cost_amount)),
     total_revenue |-> DecAdd(acc.total_revenue, from_f64(booking.sale_amount)),
     total_profit |-> DecAdd(acc.total_profit, from_f64(result.net_profit)),
     total_vat |-> DecAdd(acc.total_vat, from_f64(result.vat_amount)),
     total_commission |->
         DecAdd(acc.total_commission, from_f64(result.commission_amount))]

\* No accumulator has overflowed.
TotalsOk(acc) ==
    /\ acc.total_cost.ok /\ acc.total_revenue.ok /\ acc.total_profit.ok
    /\ acc.total_vat.ok /\ acc.total_commission.ok

\* if let Ok(result) = ... { accumulate }: anything else leaves the
\* accumulators alone.
batch_if_let(acc, booking, parsed) ==
    IF parsed.ok THEN batch_accumulate(acc, booking, parsed.val) ELSE acc

\* The state of the call after one iteration: a panic of the inner call, or of
\* an accumulator's addition, unwinds the batch call.
batch_after(i, outcome, acc) ==
    IF outcome.status = "panic" \/ ~TotalsOk(acc) THEN PanicOutcome
    ELSE [status |-> "running", i |-> i + 1, acc |-> acc]

batch_on_outcome(i, acc, booking, outcome) ==
    batch_after(i, outcome, batch_if_let(acc, booking, financials_from_str(outcome)))

\* One iteration of the loop over input.bookings.
batch_iteration(i, acc, booking) ==
    batch_on_outcome(i, acc, booking,
                     calculate_booking_financials(booking_to_string(booking)))

\* The margin left as a ratio, not a percentage.
average_profit_margin_ratio(total_profit, total_revenue) ==
    IF total_revenue.v > 0
    THEN DecDiv(total_profit, total_revenue)
    ELSE DecZero

\* Revenue-weighted margin of the batch: zero unless total_revenue > 0.
average_profit_margin(total_profit, total_revenue) ==
    IF total_revenue.v > 0
    THEN DecMul(DecDiv(total_profit, total_revenue), DecHundred)
    ELSE DecZero

booking_count(bookings, results) == Len(bookings)

batch_summary(bookings, acc, average) ==
    IF ~average.ok THEN PanicOutcome
    ELSE [status |-> "ok",
          locals |-> [total_cost |-> acc.total_cost,
                      total_revenue |-> acc.total_revenue,
                      total_profit |-> acc.total_profit,
                      total_vat |-> acc.total_vat,
                      total_commission |-> acc.total_commission,
                      average_profit_margin |-> average],
          body |->
            [results |-> acc.results,
             summary |->
               [total_cost |-> to_f64(acc.total_cost),
                total_revenue |-> to_f64(acc.total_revenue),
                total_profit |-> to_f64(acc.total_profit),
                total_vat |-> to_f64(acc.total_vat),
                total_commission |-> to_f64(acc.total_commission),
                average_profit_margin |-> to_f64(average),
                booking_count |-> booking_count(bookings, acc.results)]]]

\* The summary and the response, after the loop.
batch_result(bookings, acc) ==
    batch_summary(bookings, acc,
                  average_profit_margin(acc.total_profit, acc.total_revenue))

\* The state of the call once the request is decoded.
batch_entry(parsed) ==
    IF ~parsed.ok THEN ErrorResponse
    ELSE [status |-> "running", i |-> 1, acc |-> BatchStart]

-----------------------------------------------------------------------------
(* The requests a caller can send.  Amounts and rates are f64 values, in   *)
(* units.                                                                  *)

CostAmounts == {0, 2 * One, 4 * One, 6 * One, 10 * One, 1024 * One}

SaleAmounts == {0, 4 * One, 5 * One, 6 * One, 19 * (One \div 2), 15 * One}

VatRates == {-160 * One, -100 * One, 0, 5 * One, 15 * One}

CommissionRates == {0, 10 * One, 50 * One}

Currencies == {"USD"}

Bookings ==
    [cost_amount : CostAmounts, sale_amount : SaleAmounts, vat_rate : VatRates,
     commission_rate : CommissionRates, currency : Currencies]

Booking(cost, sale, vat, commission) ==
    [cost_amount |-> cost * One, sale_amount |-> sale * One, vat_rate |-> vat * One,
     commission_rate |-> commission * One, currency |-> "USD"]

\* The bookings batches are made of.
BatchBookings ==
    {Booking(4, 4, 5, 0), Booking(2, 5, 5, 0), Booking(6, 6, 5, 0),
     Booking(2, 4, -100, 0)}

RECURSIVE SeqsUpTo(_, _)
SeqsUpTo(S, n) ==
    IF n = 0 THEN {<<>>}
    ELSE LET shorter == SeqsUpTo(S, n - 1)
         IN  shorter \cup {Append(s, x) : s \in shorter, x \in S}

\* The JSON text of a booking, as a caller writes it.
BookingJson(b) ==
    [tag |-> "BookingInput",
     cost_amount |-> b.cost_amount, sale_amount |-> b.sale_amount,
     vat_rate |-> b.vat_rate, commission_rate |-> b.commission_rate,
     currency |-> b.currency]

BookingRequests == {BookingJson(b) : b \in Bookings} \cup {Malformed}

BatchRequests ==
    {[tag |-> "BatchBookingInput", bookings |-> s] : s \in SeqsUpTo(BatchBookings, MaxBatch)}
        \cup {Malformed}

NoRequest == [tag |-> "none"]

NotCalled == [status |-> "none"]

-----------------------------------------------------------------------------
(* The state machine: a caller sends a booking and calls either or both of *)
(* the single-booking entry points on it, or sends a batch and calls the   *)
(* batch entry point.  The engine itself is stateless.                     *)

Init ==
    /\ input = NoRequest
    /\ fin = NotCalled
    /\ jrn = NotCalled
    /\ batch_input = NoRequest
    /\ batch = NotCalled

\* The engine is synchronous: no request arrives while a call is running.
Idle == batch.status # "running"

ReceiveBooking ==
    /\ Idle
    /\ \E j \in BookingRequests :
        /\ input' = j
        /\ fin' = NotCalled
        /\ jrn' = NotCalled
        /\ batch_input' = NoRequest
        /\ batch' = NotCalled

CalculateBookingFinancials ==
    /\ input # NoRequest
    /\ fin = NotCalled
    /\ fin' = calculate_booking_financials(input)
    /\ UNCHANGED <<input, jrn, batch_input, batch>>

GenerateJournalEntriesForBooking ==
    /\ input # NoRequest
    /\ jrn = NotCalled
    /\ jrn' = generate_journal_entries_for_booking(input)
    /\ UNCHANGED <<input, fin, batch_input, batch>>

ReceiveBatch ==
    /\ Idle
    /\ \E j \in BatchRequests :
        /\ batch_input' = j
        /\ batch' = NotCalled
        /\ input' = NoRequest
        /\ fin' = NotCalled
        /\ jrn' = NotCalled

\* calculate_batch_bookings, entry: decode the request, zero the accumulators.
CalculateBatchBookings ==
    /\ batch_input # NoRequest
    /\ batch = NotCalled
    /\ batch' = batch_entry(batch_from_str(batch_input))
    /\ UNCHANGED <<input, fin, jrn, batch_input>>

\* calculate_batch_bookings, one iteration of the loop.
BatchLoop ==
    /\ batch.status = "running"
    /\ batch.i <= Len(batch_input.bookings)
    /\ batch' = batch_iteration(batch.i, batch.acc, batch_input.bookings[batch.i])
    /\ UNCHANGED <<input, fin, jrn, batch_input>>

\* calculate_batch_bookings, after the loop: the summary and the response.
BatchReturn ==
    /\ batch.status = "running"
    /\ batch.i > Len(batch_input.bookings)
    /\ batch' = batch_result(batch_input.bookings, batch.acc)
    /\ UNCHANGED <<input, fin, jrn, batch_input>>

Next ==
    \/ ReceiveBooking
    \/ CalculateBookingFinancials
    \/ GenerateJournalEntriesForBooking
    \/ ReceiveBatch
    \/ CalculateBatchBookings
    \/ BatchLoop
    \/ BatchReturn

Spec == Init /\ [][Next]_vars

\* Every amount a request carries is an f64.
RequestsAreF64 ==
    \A b \in Bookings \cup BatchBookings :
        /\ IsF64(b.cost_amount) /\ IsF64(b.sale_amount)
        /\ IsF64(b.vat_rate) /\ IsF64(b.commission_rate)

TypeOK ==
    /\ fin.status \in {"none", "ok", "error", "panic"}
    /\ jrn.status \in {"none", "ok", "error", "panic"}
    /\ batch.status \in {"none", "running", "ok", "error", "panic"}

-----------------------------------------------------------------------------
(* Properties.                                                             *)

BookingSent == input.tag = "BookingInput"

BatchSent == batch_input.tag = "BatchBookingInput"

ZeroDivisor(b) == b.vat_rate = -100 * One

Entries == jrn.body.entries

Summary == batch.body.summary

Results == batch.body.results

\* C1: every journal returned for a booking has total_debit equal to
\* total_credit exactly, and is_balanced true.
C1_JournalBalancedExactly ==
    (BookingSent /\ ~ZeroDivisor(input) /\ jrn.status = "ok")
        => /\ jrn.body.total_debit = jrn.body.total_credit
           /\ jrn.body.is_balanced

\* C2: with vat_rate = -100 both single-booking entry points end in a
\* defined error response; neither crashes on the division by the zero
\* vat_divisor.
C2_ZeroDivisorIsDefinedError ==
    (BookingSent /\ ZeroDivisor(input))
        => /\ fin.status \in {"none", "error"}
           /\ jrn.status \in {"none", "error"}

\* The bookings of the batch whose own calculation succeeds.
Usable(bookings) ==
    {i \in 1..Len(bookings) :
        calculate_booking_financials(BookingJson(bookings[i])).status = "ok"}

\* C3: a booking whose calculation fails does not abort the batch: the call
\* still returns a BatchBookingResult, holding one result per other booking.
C3_FailingBookingDoesNotAbortBatch ==
    (BatchSent /\ batch.status \notin {"none", "running"})
        => /\ batch.status = "ok"
           /\ Len(Results) = Cardinality(Usable(batch_input.bookings))

RECURSIVE DecSum(_)
DecSum(s) ==
    IF s = <<>> THEN DecZero
    ELSE DecAdd(DecSum(SubSeq(s, 1, Len(s) - 1)), from_f64(s[Len(s)]))

SaleAmounts_of(bookings) == [i \in 1..Len(bookings) |-> bookings[i].sale_amount]

NetProfits_of(results) == [i \in 1..Len(results) |-> results[i].net_profit]

Margins_of(results) == [i \in 1..Len(results) |-> results[i].profit_margin_percentage]

WeightedMargin(total_profit, total_revenue) ==
    IF total_revenue.v > 0
    THEN to_f64(DecMul(DecDiv(total_profit, total_revenue), DecHundred))
    ELSE 0

RECURSIVE IntSum(_)
IntSum(s) == IF s = <<>> THEN 0 ELSE IntSum(SubSeq(s, 1, Len(s) - 1)) + s[Len(s)]

\* The batch's average is the arithmetic mean of the per-booking margins.
IsMeanOfMargins ==
    Summary.average_profit_margin * Len(Results) = IntSum(Margins_of(Results))

\* Two bookings of the batch have unequal margins and unequal revenue.
UnequalMarginsAndRevenue ==
    \E i, j \in 1..Len(Results) :
        /\ Results[i].profit_margin_percentage # Results[j].profit_margin_percentage
        /\ batch_input.bookings[i].sale_amount # batch_input.bookings[j].sale_amount

\* C5 (as stated): the average is (total_profit / total_revenue) * 100, or 0
\* when total_revenue is not positive, and it differs from the mean of the
\* per-booking margins whenever bookings with unequal margins have unequal
\* revenue.
C5_WeightedAndNeverTheMean ==
    (BatchSent /\ batch.status = "ok")
        => /\ Summary.average_profit_margin =
                  WeightedMargin(DecSum(NetProfits_of(Results)),
                                 DecSum(SaleAmounts_of(batch_input.bookings)))
           /\ UnequalMarginsAndRevenue => ~IsMeanOfMargins

\* C5 (amended): the average is (total_profit / total_revenue) * 100 over the
\* sum of the sale amounts and the sum of the per-booking net_profit outputs,
\* or 0 when total_revenue is not positive.
C5_AverageIsRevenueWeighted ==
    (BatchSent /\ batch.status = "ok")
        => Summary.average_profit_margin =
               WeightedMargin(DecSum(NetProfits_of(Results)),
                              DecSum(SaleAmounts_of(batch_input.bookings)))

\* A batch whose revenue-weighted average is not the mean of its margins.
C5_Witness ==
    /\ BatchSent /\ batch.status = "ok"
    /\ UnequalMarginsAndRevenue
    /\ Summary.average_profit_margin # 0
    /\ ~IsMeanOfMargins

\* C6: for sale > 0 and vat_rate other than -100, net_before_vat + vat_amount
\* is sale exactly, net_before_vat is sale / (1 + vat_rate / 100) and
\* total_with_vat is sale (the Decimal values, before serialization).
C6_NetPlusVatIsSale ==
    (BookingSent /\ ~ZeroDivisor(input) /\ fin.status = "ok" /\ fin.locals.sale.v > 0)
        => /\ fin.locals.net_before_vat.v + fin.locals.vat_amount.v = fin.locals.sale.v
           /\ fin.locals.net_before_vat =
                  DecDiv(from_f64(input.sale_amount),
                         DecAdd(DecOne, DecDiv(from_f64(input.vat_rate), DecHundred)))
           /\ fin.locals.total_with_vat = fin.locals.sale

\* C7: for the same booking, the credit of the Revenue entry (4101) is the
\* net_before_vat of calculate_booking_financials and the credit of the VAT
\* Payable entry (2301) is its vat_amount, whenever both calls succeed.
C7_JournalAgreesWithFinancials ==
    (fin.status = "ok" /\ jrn.status = "ok")
        => /\ Entries[2].account_code = "4101"
           /\ Entries[2].credit = fin.body.net_before_vat
           /\ Entries[3].account_code = "2301"
           /\ Entries[3].credit = fin.body.vat_amount

C7_Witness ==
    /\ fin.status = "ok" /\ jrn.status = "ok"
    /\ Entries[2].credit # 0
    /\ Entries[3].credit # 0
    /\ Entries[3].credit = fin.body.vat_amount

\* The VAT split of a booking, as section 4.1 of the design computes it.
VatOf(b) == vat_breakdown(from_f64(b.sale_amount), from_f64(b.vat_rate))

\* C8: a journal returned holds exactly 5 entries in the fixed order debit
\* 1201 = sale, credit 4101 = net_before_vat, credit 2301 = vat_amount, debit
\* 5101 = cost, credit 2101 = cost, whatever the input values.
C8_FiveEntriesInFixedOrder ==
    (BookingSent /\ jrn.status = "ok")
        => Entries =
             << [account_code |-> "1201", credit |-> 0,
                 debit |-> to_f64(from_f64(input.sale_amount))],
                [account_code |-> "4101", debit |-> 0,
                 credit |-> to_f64(VatOf(input).net_before_vat)],
                [account_code |-> "2301", debit |-> 0,
                 credit |-> to_f64(VatOf(input).vat_amount)],
                [account_code |-> "5101", credit |-> 0,
                 debit |-> to_f64(from_f64(input.cost_amount))],
                [account_code |-> "2101", debit |-> 0,
                 credit |-> to_f64(from_f64(input.cost_amount))] >>

C8_Witness ==
    /\ BookingSent /\ jrn.status = "ok"
    /\ Len(Entries) = 5
    /\ Entries[1].debit # 0 /\ Entries[2].credit # 0 /\ Entries[3].credit # 0
    /\ Entries[4].debit # 0 /\ Entries[5].credit # 0
    /\ Entries[1].debit # Entries[4].debit

\* C9 (as stated): in every entry exactly one of debit and credit is
\* non-zero.
C9_ExactlyOneSideNonZero ==
    (BookingSent /\ jrn.status = "ok")
        => \A i \in 1..Len(Entries) :
              (Entries[i].debit # 0) # (Entries[i].credit # 0)

\* The amount entry i carries, as serialized.
EntryAmount(i) ==
    to_f64(<<jrn.locals.sale, jrn.locals.net_before_vat, jrn.locals.vat_amount,
             jrn.locals.cost, jrn.locals.cost>>[i])

\* C9 (amended): no entry has both debit and credit non-zero; an entry has
\* both zero exactly when the amount it carries is zero.
C9_AtMostOneSideNonZero ==
    (BookingSent /\ jrn.status = "ok")
        => \A i \in 1..Len(Entries) :
              /\ Entries[i].debit = 0 \/ Entries[i].credit = 0
              /\ (Entries[i].debit = 0 /\ Entries[i].credit = 0) <=> EntryAmount(i) = 0

\* A journal with a one-sided entry and an entry of amount zero.
C9_Witness ==
    /\ BookingSent /\ jrn.status = "ok"
    /\ \E i \in 1..Len(Entries) : Entries[i].debit # 0 /\ Entries[i].credit = 0
    /\ \E i \in 1..Len(Entries) : Entries[i].debit = 0 /\ Entries[i].credit # 0
    /\ \E i \in 1..Len(Entries) : Entries[i].debit = 0 /\ Entries[i].credit = 0

\* C10: profit_margin_percentage is returned as 0 whenever sale is not
\* positive, whatever the cost and the rates, and as (net_profit / sale) * 100
\* when sale is positive.
C10_ZeroSaleZeroMargin ==
    (BookingSent /\ fin.status # "none")
        => /\ input.sale_amount <= 0
              => (fin.status = "ok" /\ fin.body.profit_margin_percentage = 0)
           /\ (input.sale_amount > 0 /\ fin.status = "ok")
              => fin.body.profit_margin_percentage =
                     to_f64(DecMul(DecDiv(fin.locals.net_profit, fin.locals.sale),
                                   DecHundred))

====
